---- MODULE Spec2Model ----
(***************************************************************************)
(* rustboy: the frame pacer (src/src/emulator.rs), its host loop           *)
(* (src/src/main.rs) and the GPU mode machine and background renderer      *)
(* (src/src/gpu.rs).                                                       *)
(*                                                                         *)
(* Several components, each with its own specification over the same         *)
(* variables:                                                              *)
(*   SpecPacer    Emulator::run driven by the host loop, with a wall clock *)
(*   SpecGpuUnit  Gpu::run advanced one cycle at a time (as the test       *)
(*                test_draw_frame does), with counters of what happened    *)
(*   SpecGpu      Gpu::run advanced by arbitrary u8 cycle counts           *)
(*   SpecVram     write_vram / read_vram                                   *)
(*   SpecDraw     draw_line called on a GPU set up as the unit tests do    *)
(*   SpecRender   Gpu::run rendering through draw_line, SCY and VRAM       *)
(*                changing between calls                                   *)
(*   SpecTile     get_tile_data for every tile id and row offset           *)
(*   SpecIrq      GpuInterruptRequest::add                                 *)
(*   SpecDebug    the debugger threads and the host loop sharing debug_cmd *)
(*   SpecSwitch   SpecDraw with the background switched on and off         *)
(*   SpecFrame    Gpu::run through whole frames, the background switched   *)
(*                on at some point                                         *)
(*   SpecPacerFair  SpecPacer with a fair host loop and a fair clock       *)
(***************************************************************************)
EXTENDS Integers, Sequences, FiniteSets, TLC

VARIABLES
    \* ---- Emulator (src/src/emulator.rs:24-31)
    state,                      \* EmulatorState
    cycles_elapsed_in_frame,    \* usize
    emulator_frame_tick,        \* Instant, in ns of the wall clock
    soc_clock,                  \* the SoC: master cycles executed so far
    \* ---- environment of the emulator
    now,                        \* the wall clock (Instant::now()), in ns
    hostpc,                     \* position of the host loop of main()
    \* ---- history of the pacer
    display_times,              \* wall-clock times of the entries into DisplayFrame
    presented,                  \* frames the host has presented
    \* ---- Gpu (src/src/gpu.rs:98-153), a record with the struct's fields
    gpu,
    \* ---- history of the GPU mode machine
    total_cycles,               \* cycles advanced through Gpu::run so far
    entered,                    \* per mode: how often the mode was entered
    vblank_cycles,              \* cycles advanced while the mode was VerticalBlank
    mode_cycles,                \* cycles advanced since the current mode was entered
    line_trace,                 \* <<mode, cycles, line>> of the modes finished on the current scanline
    done_line,                  \* the line_trace of the scanline that ended last
    \* ---- history of VRAM writes and of draw_line calls
    vram_log,                   \* the write_vram calls made, oldest first
    draws,                      \* number of draw_line calls made (SpecDraw, SpecRender)
    \* ---- what the last Gpu::run call reported to its caller
    run_request,                \* the GpuInterruptRequest it requested
    \* ---- the last get_tile_data call
    tile_read,                  \* its arguments, the offsets it read, its result
    \* ---- a GpuInterruptRequest value and the add calls made on it
    irq,                        \* the value (self)
    irq_log,                    \* its first value, then the arguments of add
    \* ---- the debugger of main() (src/src/main.rs:37-72)
    debug_cmd,                  \* the Vec<DebuggerCommand> inside the mutex
    debug_cmd_lock,             \* the thread holding the mutex, or "free"
    dbgpc,                      \* position of the debugger thread
    command,                    \* the line the debugger thread has read
    lines_read                  \* number of lines read from stdin so far

emuVars  == <<state, cycles_elapsed_in_frame, emulator_frame_tick, soc_clock>>
hostVars == <<now, hostpc, display_times, presented>>
gpuHist  == <<total_cycles, entered, vblank_cycles, mode_cycles, line_trace, done_line>>
drawHist == <<vram_log, draws>>
tileVars == <<tile_read>>
irqVars  == <<irq, irq_log>>
dbgVars  == <<debug_cmd, debug_cmd_lock, dbgpc, command, lines_read>>
restVars == <<tileVars, irqVars, dbgVars>>
auxVars  == <<run_request, restVars>>
vars     == <<emuVars, hostVars, gpu, gpuHist, drawHist, auxVars>>

(***************************************************************************)
(* Arithmetic helpers                                                      *)
(***************************************************************************)
RECURSIVE GCD(_, _)
GCD(a, b) == IF b = 0 THEN a ELSE GCD(b, a % b)

\* floor(a * b / c) for naturals, computed without an intermediate product
\* larger than 2^31 (the source computes it in a 64-bit usize)
MulDivFloor(a, b, c) ==
    LET g  == GCD(a, c)
        a1 == a \div g
        c1 == c \div g
    IN  (b \div c1) * a1 + ((b % c1) * a1) \div c1

(***************************************************************************)
(* Emulator: constants                                                     *)
(***************************************************************************)
SCREEN_HEIGHT == 144
SCREEN_WIDTH == 160

ONE_SECOND_IN_MICROS == 1000000000
ONE_SECOND_IN_CYCLES == 4194304
ONE_FRAME_IN_CYCLES == 70224
ONE_FRAME_IN_NS ==
    MulDivFloor(ONE_FRAME_IN_CYCLES, ONE_SECOND_IN_MICROS, ONE_SECOND_IN_CYCLES)

EmulatorState == {"GetTime", "RunMachine", "WaitNextFrame", "DisplayFrame"}

(***************************************************************************)
(* Bounds of the pacer model                                               *)
(***************************************************************************)
\* the wall clock stops after this many frame periods
MaxFrames == 2
MaxNow == MaxFrames * ONE_FRAME_IN_NS

\* the amounts by which the wall clock advances between two steps: one ns
\* short of a frame period, and exactly a frame period
ClockSteps == {ONE_FRAME_IN_NS - 1, ONE_FRAME_IN_NS}

\* the cycle counts one SoC step may return (u8): both divide 70224, so the
\* accumulator can hit the frame budget exactly, and it can overshoot it
SocCycleCounts == {152, 228}

(***************************************************************************)
(* SoC: Soc::run() executes one step and returns its cycle count.  The     *)
(* hardware state is represented by the master cycles executed so far.     *)
(***************************************************************************)
Soc_new == 0

Soc_run(clock, c) == clock + c

(***************************************************************************)
(* Emulator::new and Emulator::run, one action per arm of the match        *)
(***************************************************************************)
Emulator_new ==
    /\ state = "GetTime"
    /\ cycles_elapsed_in_frame = 0
    /\ emulator_frame_tick = now
    /\ soc_clock = Soc_new

\* emulator.rs:62
FrameCyclesReachedMutant(acc) == acc > ONE_FRAME_IN_CYCLES
FrameCyclesReached(acc) == acc >= ONE_FRAME_IN_CYCLES

\* emulator.rs:69, elapsed = emulator_frame_tick.elapsed().as_nanos()
FrameTimeElapsedMutant(elapsed) == elapsed >= ONE_FRAME_IN_NS - 1
FrameTimeElapsedSecond(elapsed) == elapsed >= ONE_SECOND_IN_MICROS
FrameTimeElapsed(elapsed) == elapsed >= ONE_FRAME_IN_NS

\* Instant::elapsed()
Elapsed(tick) == now - tick

RunGetTime ==
    /\ state = "GetTime"
    /\ emulator_frame_tick' = now
    /\ state' = "RunMachine"
    /\ UNCHANGED <<cycles_elapsed_in_frame, soc_clock, display_times>>

RunRunMachine ==
    /\ state = "RunMachine"
    /\ \E c \in SocCycleCounts :
          /\ soc_clock' = Soc_run(soc_clock, c)
          /\ IF FrameCyclesReached(cycles_elapsed_in_frame + c)
             THEN /\ cycles_elapsed_in_frame' = 0
                  /\ state' = "WaitNextFrame"
             ELSE /\ cycles_elapsed_in_frame' = cycles_elapsed_in_frame + c
                  /\ state' = state
    /\ UNCHANGED <<emulator_frame_tick, display_times>>

RunWaitNextFrameMutant ==
    /\ state = "WaitNextFrame"
    /\ soc_clock' = Soc_run(soc_clock, 152)
    /\ IF FrameTimeElapsed(Elapsed(emulator_frame_tick))
       THEN /\ state' = "DisplayFrame"
            /\ display_times' = Append(display_times, now)
       ELSE UNCHANGED <<state, display_times>>
    /\ UNCHANGED <<cycles_elapsed_in_frame, emulator_frame_tick>>

RunWaitNextFrame ==
    /\ state = "WaitNextFrame"
    /\ IF FrameTimeElapsed(Elapsed(emulator_frame_tick))
       THEN /\ state' = "DisplayFrame"
            /\ display_times' = Append(display_times, now)
       ELSE UNCHANGED <<state, display_times>>
    /\ UNCHANGED <<cycles_elapsed_in_frame, emulator_frame_tick, soc_clock>>

RunDisplayFrameMutant ==
    /\ state = "DisplayFrame"
    /\ state' = "RunMachine"
    /\ UNCHANGED <<cycles_elapsed_in_frame, emulator_frame_tick, soc_clock, display_times>>

RunDisplayFrame ==
    /\ state = "DisplayFrame"
    /\ state' = "GetTime"
    /\ UNCHANGED <<cycles_elapsed_in_frame, emulator_frame_tick, soc_clock, display_times>>

\* Emulator::frame_ready
frame_readyMutant == state \in {"WaitNextFrame", "DisplayFrame"}
frame_ready == IF state = "DisplayFrame" THEN TRUE ELSE FALSE

(***************************************************************************)
(* The host loop of main(): emulator.run(); if emulator.frame_ready()      *)
(* { copy the frame buffer; window.update_with_buffer }                    *)
(***************************************************************************)
HostRun(arm) ==
    /\ hostpc = "run"
    /\ arm
    /\ hostpc' = "frame_ready"
    /\ UNCHANGED <<now, presented>>

HostFrameReady ==
    /\ hostpc = "frame_ready"
    /\ presented' = IF frame_ready THEN presented + 1 ELSE presented
    /\ hostpc' = "run"
    /\ UNCHANGED <<emuVars, now, display_times>>

\* the wall clock advances on its own
ClockAdvance ==
    /\ \E d \in ClockSteps :
          /\ now + d <= MaxNow
          /\ now' = now + d
    /\ UNCHANGED <<emuVars, hostpc, display_times, presented>>

TickGetTime       == HostRun(RunGetTime)
TickRunMachine    == HostRun(RunRunMachine)
TickWaitNextFrame == HostRun(RunWaitNextFrame)
TickDisplayFrame  == HostRun(RunDisplayFrame)

\* a step that is one call of Emulator::run
Tick == hostpc = "run" /\ hostpc' = "frame_ready"

(***************************************************************************)
(* GPU: constants                                                          *)
(***************************************************************************)
HORIZONTAL_BLANK_CYCLES == 204
VERTICAL_BLANK_CYCLES == 4560
OAM_SCAN_CYCLES == 80
DRAW_PIXEL_CYCLES == 172

LAST_LINE_TO_DRAW == 143

TILE_ROW_SIZE_IN_PIXEL == 8
TILE_SIZE_IN_BYTES == 16
TILE_MAP_SIZE == 32
BYTES_PER_TILE_ROM == 2

\* crate::bus::VRAM_SIZE: VRAM is 8 KiB, offsets 0x0000-0x1FFF
VRAM_SIZE == 8192

\* enum PixelColor
WHITE == 255
LIGHT_GRAY == 192
DARK_GRAY == 96
BLACK == 0

\* enum TileMapArea
X9800 == 6144
X9C00 == 7168

Mode == {"HorizontalBlank", "VerticalBlank", "OAMScan", "DrawPixel"}

GpuInterruptRequest == {"None", "VBlank", "LCDStat", "Both"}

\* GpuInterruptRequest::add: the value left in self
GpuInterruptRequest_add(self, other) ==
    CASE self = "None" -> other
      [] self = "VBlank" /\ other = "LCDStat" -> "Both"
      [] self = "LCDStat" /\ other = "VBlank" -> "Both"
      [] OTHER -> self

U8Mutant(n) == n
U8(n) == n % 256
U16(n) == n % 65536

\* bit k of the byte d:  d >> k & 0x01
Bit(d, k) == (d \div (2 ^ k)) % 2

\* Palette::new
Palette_new == <<WHITE, LIGHT_GRAY, DARK_GRAY, BLACK>>

(***************************************************************************)
(* The arrays vram and frame_buffer are kept as functions on the offsets   *)
(* that have been written; every other offset still holds the 0 that      *)
(* Gpu::new put there.                                                     *)
(***************************************************************************)
EmptyArray == [i \in {} |-> 0]

ArrayGet(arr, i) == IF i \in DOMAIN arr THEN arr[i] ELSE 0

ArraySet(arr, i, d) ==
    [j \in (DOMAIN arr) \cup {i} |-> IF j = i THEN d ELSE arr[j]]

\* Gpu::new
Gpu_new ==
    [ vram |-> EmptyArray,
      background_tile_data_area |-> FALSE,
      background_tile_map_area |-> X9800,
      background_display_enabled |-> FALSE,
      mode |-> "HorizontalBlank",
      viewport_y_offset |-> 0,
      viewport_x_offset |-> 0,
      current_line |-> 0,
      background_palette |-> Palette_new,
      cycles |-> 0,
      frame_buffer |-> EmptyArray,
      panicked |-> FALSE ]

\* Gpu::read_vram: self.vram[address as usize]
read_vram(g, address) == ArrayGet(g.vram, address)

\* Gpu::write_vram: self.vram[address as usize] = data; an index outside the
\* array panics
write_vramMutant(g, address, data) ==
    [g EXCEPT !.vram = ArraySet(ArraySet(g.vram, address, data), address + 1, data)]
write_vram(g, address, data) ==
    IF address < VRAM_SIZE
    THEN [g EXCEPT !.vram = ArraySet(g.vram, address, data)]
    ELSE [g EXCEPT !.panicked = TRUE]

\* Gpu::get_bg_pixel_color_from_palette
get_bg_pixel_color_from_paletteMutant(g, pixel_value) == pixel_value

get_bg_pixel_color_from_palette(g, pixel_value) ==
    CASE pixel_value = 0 -> g.background_palette[1]
      [] pixel_value = 1 -> g.background_palette[2]
      [] pixel_value = 2 -> g.background_palette[3]
      [] pixel_value = 3 -> g.background_palette[4]
      [] OTHER -> g.background_palette[1]

\* Gpu::get_tile_data: the VRAM offsets it reads data_1 and data_0 from
get_tile_data_offsetsMutant(g, tile_mem_addr, tile_row_offset) ==
    IF g.background_tile_data_area
    THEN << tile_mem_addr + tile_row_offset + 1, tile_mem_addr + tile_row_offset >>
    ELSE << 4096 + tile_mem_addr + tile_row_offset + 1,
            4096 + tile_mem_addr + tile_row_offset >>

get_tile_data_offsets(g, tile_mem_addr, tile_row_offset) ==
    IF g.background_tile_data_area
    THEN \* $8000 method addressing
         << tile_mem_addr + tile_row_offset + 1, tile_mem_addr + tile_row_offset >>
    ELSE \* $8800 method addressing
         IF tile_mem_addr + tile_row_offset < 2048
         THEN << 4096 + tile_mem_addr + tile_row_offset + 1,
                 4096 + tile_mem_addr + tile_row_offset >>
         ELSE << tile_mem_addr + tile_row_offset + 1,
                 tile_mem_addr + tile_row_offset >>

\* Gpu::get_tile_data: <<data_1, data_0>>
get_tile_data(g, tile_mem_addr, tile_row_offset) ==
    LET o == get_tile_data_offsets(g, tile_mem_addr, tile_row_offset)
    IN  << read_vram(g, o[1]), read_vram(g, o[2]) >>

\* the row of the frame buffer that draw_line renders (gpu.rs:262)
pixel_y_indexMutant(g) == g.current_line
pixel_y_index(g) == g.current_line - 1

\* the colour draw_line computes for column pixel_x_index of row y
\* (gpu.rs:266-287)
draw_pixelMutant(g, y, pixel_x_index) ==
    LET fy == U8(y + g.viewport_y_offset)
        fx == U8(pixel_x_index + g.viewport_x_offset)
        tile_map_index == (fy \div TILE_ROW_SIZE_IN_PIXEL) * TILE_MAP_SIZE
                             + (fx \div TILE_ROW_SIZE_IN_PIXEL)
        tile_mem_index == ArrayGet(g.vram, g.background_tile_map_area + tile_map_index)
        base == IF g.background_tile_data_area \/ tile_mem_index >= 128
                THEN tile_mem_index * TILE_SIZE_IN_BYTES
                ELSE 4096 + tile_mem_index * TILE_SIZE_IN_BYTES
        off  == (fy % TILE_ROW_SIZE_IN_PIXEL) * BYTES_PER_TILE_ROM
        bit_0 == Bit(ArrayGet(g.vram, base + off), fx % TILE_ROW_SIZE_IN_PIXEL)
        bit_1 == Bit(ArrayGet(g.vram, base + off + 1), fx % TILE_ROW_SIZE_IN_PIXEL)
    IN  g.background_palette[(bit_1 * 2) + bit_0 + 1]

draw_pixel(g, y, pixel_x_index) ==
    LET fy == U8(y + g.viewport_y_offset)
        fx == U8(pixel_x_index + g.viewport_x_offset)
        tile_map_y_index == fy \div TILE_ROW_SIZE_IN_PIXEL
        tile_map_x_index == fx \div TILE_ROW_SIZE_IN_PIXEL
        tile_map_index == tile_map_y_index * TILE_MAP_SIZE + tile_map_x_index
        tile_mem_index == read_vram(g, g.background_tile_map_area + tile_map_index)
        tile_mem_addr == tile_mem_index * TILE_SIZE_IN_BYTES
        tile_row_offset == U8((fy % TILE_ROW_SIZE_IN_PIXEL) * BYTES_PER_TILE_ROM)
        data == get_tile_data(g, tile_mem_addr, tile_row_offset)
        bit_0 == Bit(data[2], 7 - (fx % TILE_ROW_SIZE_IN_PIXEL))
        bit_1 == Bit(data[1], 7 - (fx % TILE_ROW_SIZE_IN_PIXEL))
        pixel_value == (bit_1 * 2) + bit_0
    IN  get_bg_pixel_color_from_palette(g, pixel_value)

\* the VRAM offsets draw_line reads for column pixel_x_index of row y: the
\* tile-map entry (gpu.rs:273) and the two bytes of get_tile_data
draw_pixel_reads(g, y, pixel_x_index) ==
    LET fy == U8(y + g.viewport_y_offset)
        fx == U8(pixel_x_index + g.viewport_x_offset)
        tile_map_y_index == fy \div TILE_ROW_SIZE_IN_PIXEL
        tile_map_x_index == fx \div TILE_ROW_SIZE_IN_PIXEL
        tile_map_index == tile_map_y_index * TILE_MAP_SIZE + tile_map_x_index
        tile_map_addr == g.background_tile_map_area + tile_map_index
        tile_mem_index == read_vram(g, tile_map_addr)
        tile_mem_addr == tile_mem_index * TILE_SIZE_IN_BYTES
        tile_row_offset == U8((fy % TILE_ROW_SIZE_IN_PIXEL) * BYTES_PER_TILE_ROM)
        o == get_tile_data_offsets(g, tile_mem_addr, tile_row_offset)
    IN  {tile_map_addr, o[1], o[2]}

\* Gpu::draw_line without the test of background_display_enabled
draw_lineMutant(g) ==
    IF g.current_line = 0 \/ g.current_line > SCREEN_HEIGHT
    THEN [g EXCEPT !.panicked = TRUE]
    ELSE LET y    == g.current_line - 1
             base == y * SCREEN_WIDTH
             row  == base .. (base + SCREEN_WIDTH - 1)
         IN  [g EXCEPT !.frame_buffer =
                 [i \in (DOMAIN g.frame_buffer) \cup row |->
                     IF i \in row THEN WHITE ELSE g.frame_buffer[i]]]

\* Gpu::draw_line.  current_line - 1 underflows when current_line is 0 and
\* the frame-buffer index is out of bounds for rows past the last one: both
\* panic.
draw_line(g) ==
    IF g.background_display_enabled
    THEN IF g.current_line = 0 \/ pixel_y_index(g) >= SCREEN_HEIGHT
         THEN [g EXCEPT !.panicked = TRUE]
         ELSE LET y    == pixel_y_index(g)
                  base == y * SCREEN_WIDTH
                  row  == base .. (base + SCREEN_WIDTH - 1)
              IN  [g EXCEPT !.frame_buffer =
                      [i \in (DOMAIN g.frame_buffer) \cup row |->
                          IF i \in row THEN draw_pixel(g, y, i - base)
                                       ELSE g.frame_buffer[i]]]
    ELSE g

\* Gpu::run: the u16 counter gains c, then the arm of the current mode makes
\* at most one transition, keeping the counter modulo the mode's budget
Gpu_run(g, c) ==
    LET n == U16(g.cycles + c)
    IN  CASE g.mode = "HorizontalBlank" ->
               IF n >= HORIZONTAL_BLANK_CYCLES
               THEN IF g.current_line < LAST_LINE_TO_DRAW
                    THEN [g EXCEPT !.cycles = n % HORIZONTAL_BLANK_CYCLES,
                                   !.current_line = g.current_line + 1,
                                   !.mode = "OAMScan"]
                    ELSE [g EXCEPT !.cycles = n % HORIZONTAL_BLANK_CYCLES,
                                   !.mode = "VerticalBlank"]
               ELSE [g EXCEPT !.cycles = n]
          [] g.mode = "VerticalBlank" ->
               IF n >= VERTICAL_BLANK_CYCLES
               THEN [g EXCEPT !.cycles = n % VERTICAL_BLANK_CYCLES,
                              !.current_line = 1,
                              !.mode = "OAMScan"]
               ELSE [g EXCEPT !.cycles = n]
          [] g.mode = "OAMScan" ->
               IF n >= OAM_SCAN_CYCLES
               THEN [g EXCEPT !.cycles = n % OAM_SCAN_CYCLES,
                              !.mode = "DrawPixel"]
               ELSE [g EXCEPT !.cycles = n]
          [] g.mode = "DrawPixel" ->
               IF n >= DRAW_PIXEL_CYCLES
               THEN [draw_line([g EXCEPT !.cycles = n % DRAW_PIXEL_CYCLES])
                        EXCEPT !.mode = "HorizontalBlank"]
               ELSE [g EXCEPT !.cycles = n]

\* the interrupt request a call of Gpu::run reports to its caller: run returns
\* () and none of its arms builds a GpuInterruptRequest
Gpu_run_request(g, c) == "None"

(***************************************************************************)
(* Initial values of the three components                                  *)
(***************************************************************************)
PacerInit ==
    /\ now = 0
    /\ Emulator_new
    /\ hostpc = "run"
    /\ display_times = <<>>
    /\ presented = 0

GpuHistInit ==
    /\ total_cycles = 0
    /\ entered = [m \in Mode |-> 0]
    /\ vblank_cycles = 0
    /\ mode_cycles = 0
    /\ line_trace = <<>>
    /\ done_line = <<>>

DrawHistInit ==
    /\ vram_log = <<>>
    /\ draws = 0

\* no Gpu::run call, no get_tile_data call and no add call made yet; the
\* debugger thread not started
DbgInit ==
    /\ debug_cmd = <<>>
    /\ debug_cmd_lock = "free"
    /\ dbgpc = "off"
    /\ command = ""
    /\ lines_read = 0

AuxInit ==
    /\ run_request = "None"
    /\ tile_read = <<>>
    /\ irq = "None"
    /\ irq_log = <<>>
    /\ DbgInit

(***************************************************************************)
(* SpecPacer: the host loop ticking the emulator while the clock advances  *)
(***************************************************************************)
InitPacer ==
    /\ PacerInit
    /\ gpu = Gpu_new
    /\ GpuHistInit
    /\ DrawHistInit
    /\ AuxInit

NextPacer ==
    \/ (TickGetTime /\ UNCHANGED <<gpu, gpuHist, drawHist, auxVars>>)
    \/ (TickRunMachine /\ UNCHANGED <<gpu, gpuHist, drawHist, auxVars>>)
    \/ (TickWaitNextFrame /\ UNCHANGED <<gpu, gpuHist, drawHist, auxVars>>)
    \/ (TickDisplayFrame /\ UNCHANGED <<gpu, gpuHist, drawHist, auxVars>>)
    \/ (HostFrameReady /\ UNCHANGED <<gpu, gpuHist, drawHist, auxVars>>)
    \/ (ClockAdvance /\ UNCHANGED <<gpu, gpuHist, drawHist, auxVars>>)

SpecPacer == InitPacer /\ [][NextPacer]_vars

(***************************************************************************)
(* GPU advance, with and without the counters                              *)
(***************************************************************************)
\* the unit specification stops after this many frame budgets of cycles
MaxUnitFrames == 1
MaxUnitCycles == MaxUnitFrames * ONE_FRAME_IN_CYCLES

\* the cycle counts of the batched specification (u8)
GpuCycleCounts == {0, 1, 4, 255}

\* one call gpu.run(c), recording what it did
GpuRunCounted(c) ==
    LET g2      == Gpu_run(gpu, c)
        changed == g2.mode # gpu.mode
        spent   == <<gpu.mode, mode_cycles + c, gpu.current_line>>
        lineEnd == changed /\ gpu.mode = "HorizontalBlank"
    IN  /\ gpu' = g2
        /\ total_cycles' = total_cycles + c
        /\ vblank_cycles' =
              IF gpu.mode = "VerticalBlank" THEN vblank_cycles + c ELSE vblank_cycles
        /\ entered' =
              IF changed THEN [entered EXCEPT ![g2.mode] = @ + 1] ELSE entered
        /\ mode_cycles' = IF changed THEN 0 ELSE mode_cycles + c
        /\ line_trace' =
              IF changed /\ gpu.mode \in {"HorizontalBlank", "VerticalBlank"}
              THEN <<>>
              ELSE IF changed THEN Append(line_trace, spent) ELSE line_trace
        /\ done_line' =
              IF lineEnd THEN Append(line_trace, spent) ELSE done_line

GpuUnitAdvance ==
    /\ total_cycles < MaxUnitCycles
    /\ ~gpu.panicked
    /\ GpuRunCounted(1)
    /\ run_request' = Gpu_run_request(gpu, 1)
    /\ UNCHANGED <<emuVars, hostVars, drawHist, restVars>>

GpuAdvance ==
    /\ ~gpu.panicked
    /\ \E c \in GpuCycleCounts :
          /\ gpu' = Gpu_run(gpu, c)
          /\ run_request' = Gpu_run_request(gpu, c)
    /\ UNCHANGED <<emuVars, hostVars, gpuHist, drawHist, restVars>>

InitGpu ==
    /\ PacerInit
    /\ gpu = Gpu_new
    /\ GpuHistInit
    /\ DrawHistInit
    /\ AuxInit

SpecGpuUnit == InitGpu /\ [][GpuUnitAdvance]_vars

SpecGpu == InitGpu /\ [][GpuAdvance]_vars

(***************************************************************************)
(* Claims about the pacer, checked under SpecPacer                         *)
(***************************************************************************)
PacerCycle ==
    { <<"GetTime", "RunMachine">>, <<"RunMachine", "WaitNextFrame">>,
      <<"WaitNextFrame", "DisplayFrame">>, <<"DisplayFrame", "GetTime">> }

\* C1: the state changes only in a call of Emulator::run, every change is
\* one arrow of GetTime -> RunMachine -> WaitNextFrame -> DisplayFrame ->
\* GetTime, and a call made in GetTime or in DisplayFrame always leaves that
\* state (each lasts exactly one tick).
C1_PacerFollowsCycle ==
    [][ /\ state' # state => (Tick /\ <<state, state'>> \in PacerCycle)
        /\ (Tick /\ state \in {"GetTime", "DisplayFrame"}) => state' # state
      ]_vars

\* a whole cycle has been gone through (RunMachine lasted hundreds of ticks)
C1_Witness ==
    state = "GetTime" /\ Len(display_times) = 1 /\ soc_clock >= 70224

\* C2: a tick in WaitNextFrame enters DisplayFrame only if at least
\* 16,742,706 ns have elapsed since the timestamp taken by the last GetTime
\* tick, and otherwise stays in WaitNextFrame; two successive entries into
\* DisplayFrame are at least 16,742,706 ns apart.
C2_NeverDisplaysEarly ==
    [][ /\ (Tick /\ state = "WaitNextFrame") =>
              /\ state' = "DisplayFrame" => now - emulator_frame_tick >= 16742706
              /\ now - emulator_frame_tick < 16742706 => state' = "WaitNextFrame"
        /\ \A i \in 1 .. (Len(display_times') - 1) :
              display_times'[i + 1] - display_times'[i] >= 16742706
      ]_vars

\* two frames have been displayed
C2_Witness == Len(display_times) = 2

\* C3: frame_ready() is true exactly in DisplayFrame, and the host, which
\* asks once after every run(), has presented every frame displayed so far
\* exactly once: never more frames than were displayed, all of them once the
\* host is back at run(), and all but the one just displayed in between.
C3_FramePresentedOnce ==
    /\ frame_ready <=> state = "DisplayFrame"
    /\ presented <= Len(display_times)
    /\ hostpc = "run" => presented = Len(display_times)
    /\ (hostpc = "frame_ready" /\ state = "DisplayFrame") =>
          presented = Len(display_times) - 1
    /\ (hostpc = "frame_ready" /\ state # "DisplayFrame") =>
          presented = Len(display_times)

\* the first frame was presented and the pacer is back in GetTime
C3_Witness == presented = 1 /\ state = "GetTime" /\ hostpc = "frame_ready"

\* C4: cycles_elapsed_in_frame stays in 0..70223 and is 0 outside RunMachine.
C4_CyclesInFrameRange ==
    /\ cycles_elapsed_in_frame \in 0 .. 70223
    /\ state # "RunMachine" => cycles_elapsed_in_frame = 0

\* the first frame ended with the accumulator overshooting the budget
C4_Witness ==
    /\ state = "WaitNextFrame"
    /\ soc_clock > 70224
    /\ Len(display_times) = 0

\* C5: a tick in RunMachine executes exactly one SoC step (the SoC advances
\* by one step's cycle count, which is what the accumulator gains unless it
\* is zeroed); a tick in any other state leaves the SoC, the GPU and the
\* accumulator as they are.
C5_OneSocStepPerTick ==
    [][ Tick =>
          IF state = "RunMachine"
          THEN /\ (soc_clock' - soc_clock) \in SocCycleCounts
               /\ \/ cycles_elapsed_in_frame' =
                        cycles_elapsed_in_frame + (soc_clock' - soc_clock)
                  \/ cycles_elapsed_in_frame' = 0
          ELSE UNCHANGED <<soc_clock, gpu, cycles_elapsed_in_frame>>
      ]_vars

\* ticks have been made in every state: the first frame is on display
C5_Witness == state = "DisplayFrame" /\ soc_clock >= 70224

(***************************************************************************)
(* Claims about the GPU mode machine                                       *)
(***************************************************************************)
\* C6: once exactly 70224 cycles have been advanced through the GPU from
\* Gpu::new(), current_line is 0, each of OAMScan, DrawPixel and
\* HorizontalBlank has been entered exactly 144 times, and ten scanlines
\* (10 * 456 cycles) have been spent in VerticalBlank.
C6_FrameAfter70224Cycles ==
    total_cycles = 70224 =>
        /\ gpu.current_line = 0
        /\ entered["OAMScan"] = 144
        /\ entered["DrawPixel"] = 144
        /\ entered["HorizontalBlank"] = 144
        /\ vblank_cycles = 10 * 456

\* C7: advanced one cycle at a time, every visible scanline consists of
\* OAMScan for 80 cycles, DrawPixel for 172 cycles and HorizontalBlank for
\* 204 cycles, in this order and under one value of current_line in 0..143:
\* whenever a scanline has ended, that is what it went through.
C7_ScanlineModeOrder ==
    done_line # <<>> =>
        \E l \in 0 .. 143 :
            done_line = << <<"OAMScan", 80, l>>,
                           <<"DrawPixel", 172, l>>,
                           <<"HorizontalBlank", 204, l>> >>

\* C8: current_line is in 0..153 and the mode is VerticalBlank exactly when
\* current_line is in 144..153.
C8_VBlankLines ==
    /\ gpu.current_line \in 0 .. 153
    /\ gpu.mode = "VerticalBlank" <=> gpu.current_line \in 144 .. 153

(***************************************************************************)
(* SpecVram: write_vram calls on a new GPU                                 *)
(***************************************************************************)
\* at most this many write_vram calls are made
MaxWrites == 3

\* offsets and bytes written: two neighbouring offsets of
\* test_read_write_vram and the last offset of VRAM
VramOffsets == {1, 2, 8191}
VramBytes == {0, 85, 170}

WriteVram ==
    /\ Len(vram_log) < MaxWrites
    /\ ~gpu.panicked
    /\ \E address \in VramOffsets, data \in VramBytes :
          /\ gpu' = write_vram(gpu, address, data)
          /\ vram_log' = Append(vram_log, <<address, data>>)
    /\ UNCHANGED <<emuVars, hostVars, gpuHist, draws, auxVars>>

SpecVram == InitGpu /\ [][WriteVram]_vars

\* the byte of the last write to offset a among the first n writes of the
\* log, 0 when there is none
RECURSIVE LastWritten(_, _, _)
LastWritten(log, n, a) ==
    IF n = 0 THEN 0
    ELSE IF log[n][1] = a THEN log[n][2]
    ELSE LastWritten(log, n - 1, a)

\* C9: for every VRAM offset, read_vram returns the byte most recently
\* written to that offset, or 0 when it was never written (so a write to one
\* offset changes what no other offset reads).
C9_VramReadsLastWrite ==
    \A a \in 0 .. 8191 :
        read_vram(gpu, a) = LastWritten(vram_log, Len(vram_log), a)

\* an offset was written twice with different bytes and another offset once
C9_Witness ==
    /\ Len(vram_log) = 3
    /\ vram_log[1][1] = 8191 /\ vram_log[3][1] = 8191
    /\ vram_log[1][2] = 85 /\ vram_log[3][2] = 170
    /\ vram_log[2] = <<1, 85>>

(***************************************************************************)
(* SpecDraw: draw_line called the way the unit tests call it: on a new GPU *)
(* whose public fields and VRAM have been set up, with current_line and    *)
(* the viewport offset set before each call.                               *)
(***************************************************************************)
\* at most this many draw_line calls are made
MaxDraws == 2

\* the VRAM writes of the unit tests (tile data of tiles 0x20, 0x21 at
\* 0x0200 and 0x1200 and of tiles 0x80, 0x81 at 0x0800; tile-map entries at
\* 0x1800, 0x1820, 0x1A00 and 0x1C20), and three more that make the rows of
\* tile 0x20 differ and put the tile on background row 137
TestWrites ==
    << <<512, 128>>, <<513, 128>>, <<528, 128>>, <<529, 128>>,
       <<4608, 128>>, <<4609, 128>>, <<4624, 128>>, <<4625, 128>>,
       <<2048, 128>>, <<2049, 128>>, <<2064, 128>>, <<2065, 128>>,
       <<6176, 32>>, <<6177, 33>>, <<6656, 128>>, <<6657, 129>>,
       <<7200, 32>>, <<7201, 33>>, <<6144, 32>>, <<6145, 32>>,
       <<514, 64>>, <<4610, 64>>, <<515, 32>>, <<6688, 32>> >>

RECURSIVE WriteAll(_, _, _)
WriteAll(g, writes, n) ==
    IF n = 0 THEN g
    ELSE write_vram(WriteAll(g, writes, n - 1), writes[n][1], writes[n][2])

\* the values the tests give to current_line (8, 9, 129), the first line
\* and the last line
DrawLines == {1, 8, 9, 129, 144}
\* values of SCY: none, the one of test_scrolling, and one that wraps the
\* background row past 255
ScrollYs == {0, 1, 250}
\* values of SCX
ScrollXs == {0, 1}
\* values of the background palette: the one of Gpu::new and its reverse
Palettes == {Palette_new, <<BLACK, DARK_GRAY, LIGHT_GRAY, WHITE>>}

InitDraw ==
    /\ PacerInit
    /\ GpuHistInit
    /\ DrawHistInit
    /\ AuxInit
    /\ \E e \in BOOLEAN, d \in BOOLEAN, m \in {X9800, X9C00}, sx \in ScrollXs,
          p \in Palettes :
          gpu = [WriteAll(Gpu_new, TestWrites, Len(TestWrites))
                    EXCEPT !.background_display_enabled = e,
                           !.background_tile_data_area = d,
                           !.background_tile_map_area = m,
                           !.viewport_x_offset = sx,
                           !.background_palette = p]

\* gpu.current_line = l
SetLine ==
    /\ draws < MaxDraws
    /\ ~gpu.panicked
    /\ \E l \in DrawLines : gpu' = [gpu EXCEPT !.current_line = l]
    /\ UNCHANGED <<emuVars, hostVars, gpuHist, drawHist, auxVars>>

\* gpu.viewport_y_offset = v
SetScrollY ==
    /\ draws < MaxDraws
    /\ ~gpu.panicked
    /\ \E v \in ScrollYs : gpu' = [gpu EXCEPT !.viewport_y_offset = v]
    /\ UNCHANGED <<emuVars, hostVars, gpuHist, drawHist, auxVars>>

\* gpu.draw_line()
DrawLine ==
    /\ draws < MaxDraws
    /\ ~gpu.panicked
    /\ gpu' = draw_line(gpu)
    /\ draws' = draws + 1
    /\ UNCHANGED <<emuVars, hostVars, gpuHist, vram_log, auxVars>>

NextDraw == SetLine \/ SetScrollY \/ DrawLine

SpecDraw == InitDraw /\ [][NextDraw]_vars

(***************************************************************************)
(* The background pixel as the specification defines it: the colour of     *)
(* the pixel at row fy, column fx of the 256 x 256 background              *)
(***************************************************************************)
Signed8(id) == IF id >= 128 THEN id - 256 ELSE id

BackgroundPixel(g, fy, fx) ==
    LET id   == ArrayGet(g.vram, g.background_tile_map_area + (fy \div 8) * 32 + (fx \div 8))
        addr == IF g.background_tile_data_area
                THEN id * 16
                ELSE 4096 + Signed8(id) * 16
        d0   == ArrayGet(g.vram, addr + (fy % 8) * 2)
        d1   == ArrayGet(g.vram, addr + (fy % 8) * 2 + 1)
        b    == 7 - (fx % 8)
        v    == 2 * Bit(d1, b) + Bit(d0, b)
    IN  g.background_palette[v + 1]

\* C10: with the background enabled, draw_line called with current_line = L,
\* 1 <= L <= 144, makes frame_buffer[(L-1)*160 + x] the background pixel of
\* row (L-1+SCY) mod 256, column (x+SCX) mod 256, for x in 0..159, and
\* changes no other byte of the frame buffer.
C10_DrawLineWritesRow ==
    [][ ( /\ draws' = draws + 1
          /\ gpu.background_display_enabled
          /\ gpu.current_line \in 1 .. 144 ) =>
        LET L    == gpu.current_line
            base == (L - 1) * 160
            row  == base .. (base + 159)
            fy   == (L - 1 + gpu.viewport_y_offset) % 256
        IN  /\ ~gpu'.panicked
            /\ DOMAIN gpu'.frame_buffer \subseteq 0 .. (160 * 144 - 1)
            /\ \A i \in (DOMAIN gpu.frame_buffer) \cup (DOMAIN gpu'.frame_buffer) \cup row :
                  ArrayGet(gpu'.frame_buffer, i) =
                     IF i \in row
                     THEN BackgroundPixel(gpu, fy, (i - base + gpu.viewport_x_offset) % 256)
                     ELSE ArrayGet(gpu.frame_buffer, i)
      ]_vars

\* the case of test_draw_line: current_line = 9 has rendered frame-buffer
\* row 8 (index 0x0500 black, the pixel after it white), after another row
\* had been rendered
C10_Witness ==
    /\ draws = 2
    /\ gpu.background_display_enabled
    /\ gpu.background_tile_data_area
    /\ gpu.background_tile_map_area = X9800
    /\ gpu.viewport_x_offset = 0
    /\ gpu.viewport_y_offset = 0
    /\ gpu.current_line = 9
    /\ ArrayGet(gpu.frame_buffer, 1280) = BLACK
    /\ ArrayGet(gpu.frame_buffer, 1281) = WHITE
    /\ ArrayGet(gpu.frame_buffer, 143 * 160 + 1) = LIGHT_GRAY

\* the VRAM offset of the first byte of tile id: id * 16 under $8000
\* addressing, 0x1000 + s * 16 under $8800 addressing, s the signed id
TileAddress(data_area, id) ==
    IF data_area THEN id * 16 ELSE 4096 + Signed8(id) * 16

\* C11: for the row y that draw_line renders and every x in 0..159, the byte
\* written to frame_buffer[y*160 + x] is BGP[v], where fy = (y+SCY) mod 256,
\* fx = (x+SCX) mod 256, the tile id is VRAM[map_base + (fy div 8)*32 +
\* (fx div 8)], d0 and d1 are the two bytes of that tile at row offset
\* (fy mod 8)*2, b = 7 - (fx mod 8) and v = 2*bit(d1,b) + bit(d0,b).
C11_PixelFormula ==
    [][ ( /\ draws' = draws + 1
          /\ gpu.background_display_enabled
          /\ ~gpu'.panicked ) =>
        \A x \in 0 .. 159 :
           LET y   == pixel_y_index(gpu)
               SCY == gpu.viewport_y_offset
               SCX == gpu.viewport_x_offset
               BGP == gpu.background_palette
               fy  == (y + SCY) % 256
               fx  == (x + SCX) % 256
               map_base == gpu.background_tile_map_area
               id  == ArrayGet(gpu.vram, map_base + (fy \div 8) * 32 + (fx \div 8))
               row == TileAddress(gpu.background_tile_data_area, id) + (fy % 8) * 2
               d0  == ArrayGet(gpu.vram, row)
               d1  == ArrayGet(gpu.vram, row + 1)
               b   == 7 - (fx % 8)
               v   == 2 * Bit(d1, b) + Bit(d0, b)
           IN  /\ map_base \in {6144, 7168}
               /\ y \in 0 .. 143
               /\ gpu'.frame_buffer[y * 160 + x] = BGP[v + 1]
      ]_vars

\* the case of test_scrolling with both offsets 1 and the reversed palette:
\* current_line = 8 has rendered row 7 from background row 8; its column 7
\* is the first pixel of tile 0x21 (value 3), the column before it the last
\* pixel of tile 0x20 (value 0)
C11_Witness ==
    /\ draws >= 1
    /\ gpu.background_display_enabled
    /\ gpu.background_tile_data_area
    /\ gpu.background_tile_map_area = X9C00
    /\ gpu.viewport_x_offset = 1
    /\ gpu.viewport_y_offset = 1
    /\ gpu.current_line = 8
    /\ gpu.background_palette = <<BLACK, DARK_GRAY, LIGHT_GRAY, WHITE>>
    /\ ArrayGet(gpu.frame_buffer, 7 * 160 + 7) = WHITE
    /\ ArrayGet(gpu.frame_buffer, 7 * 160 + 6) = BLACK
    /\ 7 * 160 \in DOMAIN gpu.frame_buffer

(***************************************************************************)
(* SpecRender: Gpu::run on a GPU set up as the unit tests do, so that the  *)
(* mode machine calls draw_line, with SCY and VRAM changing between calls  *)
(***************************************************************************)
\* cycle counts of the run calls: the budget of OAMScan and the largest u8
RenderCycleCounts == {80, 255}

\* a VRAM write made between run calls: row 0 of tile 0, the tile most of
\* the tile map names
RenderWrites == {<<0, 255>>}

\* gpu.run(c); a call that leaves DrawPixel has called draw_line
RenderRun ==
    /\ draws < MaxDraws
    /\ ~gpu.panicked
    /\ \E c \in RenderCycleCounts :
          /\ gpu' = Gpu_run(gpu, c)
          /\ run_request' = Gpu_run_request(gpu, c)
    /\ draws' = IF gpu.mode = "DrawPixel" /\ gpu'.mode # "DrawPixel"
                THEN draws + 1 ELSE draws
    /\ UNCHANGED <<emuVars, hostVars, gpuHist, vram_log, restVars>>

\* gpu.write_vram(address, data)
RenderWriteVram ==
    /\ draws < MaxDraws
    /\ ~gpu.panicked
    /\ \E w \in RenderWrites : gpu' = write_vram(gpu, w[1], w[2])
    /\ UNCHANGED <<emuVars, hostVars, gpuHist, drawHist, auxVars>>

NextRender == RenderRun \/ SetScrollY \/ RenderWriteVram

\* the GPUs of InitDraw whose tile map is the one of Gpu::new and whose SCX
\* is 0
InitRender ==
    /\ InitDraw
    /\ gpu.background_tile_map_area = X9800
    /\ gpu.viewport_x_offset = 0

SpecRender == InitRender /\ [][NextRender]_vars

\* C15: in every state reachable from Gpu::new() by run() calls, register
\* changes and VRAM writes, every one of the 160*144 bytes of frame_buffer is
\* one of 0, 96, 192, 255.
C15_FrameBufferColours ==
    /\ DOMAIN gpu.frame_buffer \subseteq 0 .. (160 * 144 - 1)
    /\ \A i \in DOMAIN gpu.frame_buffer : gpu.frame_buffer[i] \in {0, 96, 192, 255}

\* run() has rendered rows 0 and 1 from tile 0x20 of the unit tests, whose
\* first two rows hold pixels of all four values
C15_Witness ==
    /\ draws = 2
    /\ gpu.mode = "HorizontalBlank"
    /\ gpu.current_line = 2
    /\ 0 \in DOMAIN gpu.frame_buffer
    /\ gpu.frame_buffer[0] = BLACK
    /\ gpu.frame_buffer[1] = WHITE
    /\ ArrayGet(gpu.frame_buffer, 161) = LIGHT_GRAY
    /\ ArrayGet(gpu.frame_buffer, 162) = DARK_GRAY

(***************************************************************************)
(* SpecDebug: main() started with --debug.  The debugger thread of main()  *)
(* reads lines and pushes commands onto debug_cmd under its mutex; the     *)
(* thread Emulator::new spawns (debugger_run) reads lines from the same    *)
(* stdin and prints; the host loop locks debug_cmd for the duration of     *)
(* each emulator.run call.                                                 *)
(***************************************************************************)
\* at most this many lines are typed
MaxLines == 2
\* the wall clock stops after this many frame periods
MaxDebugFrames == 1

\* the lines typed: the five the debugger compares with, and another one
Lines == {"run", "halt", "step", "break", "help", "other"}

\* the lines for which the debugger thread of main() pushes a command
DebuggerCommand(line) ==
    CASE line = "run"  -> "RUN"
      [] line = "halt" -> "HALT"
      [] line = "step" -> "STEP"

InitDebug ==
    /\ PacerInit
    /\ gpu = Gpu_new
    /\ GpuHistInit
    /\ DrawHistInit
    /\ run_request = "None"
    /\ tile_read = <<>>
    /\ irq = "None"
    /\ irq_log = <<>>
    /\ debug_cmd = <<>>
    /\ debug_cmd_lock = "free"
    /\ dbgpc = "read_line"
    /\ command = ""
    /\ lines_read = 0

\* main.rs:44-68: stdin().read_line(&mut command), then the comparisons; a
\* line that is not a command is printed about or ignored and the loop
\* starts over with a new String
DebuggerReadLine ==
    /\ dbgpc = "read_line"
    /\ lines_read < MaxLines
    /\ lines_read' = lines_read + 1
    /\ \E line \in Lines :
          IF line \in {"run", "halt", "step"}
          THEN command' = line /\ dbgpc' = "lock"
          ELSE command' = "" /\ dbgpc' = "read_line"
    /\ UNCHANGED <<debug_cmd, debug_cmd_lock>>

\* debug_cmd_ref.lock().unwrap(): blocks until the mutex is free
DebuggerLockMutant ==
    /\ dbgpc = "lock"
    /\ dbgpc' = "push"
    /\ UNCHANGED <<debug_cmd, debug_cmd_lock, command, lines_read>>

DebuggerLock ==
    /\ dbgpc = "lock"
    /\ debug_cmd_lock = "free"
    /\ debug_cmd_lock' = "debugger"
    /\ dbgpc' = "push"
    /\ UNCHANGED <<debug_cmd, command, lines_read>>

\* .push(DebuggerCommand::..), then the guard is dropped at the end of the
\* statement
DebuggerPush ==
    /\ dbgpc = "push"
    /\ debug_cmd' = Append(debug_cmd, DebuggerCommand(command))
    /\ debug_cmd_lock' = IF debug_cmd_lock = "debugger" THEN "free" ELSE debug_cmd_lock
    /\ command' = ""
    /\ dbgpc' = "read_line"
    /\ UNCHANGED lines_read

\* emulator.rs:92-124, debugger_run: reads a line and prints
EmulatorDebuggerReadLine ==
    /\ lines_read < MaxLines
    /\ lines_read' = lines_read + 1
    /\ UNCHANGED <<debug_cmd, debug_cmd_lock, dbgpc, command>>

\* main.rs:90, debug_cmd.lock().unwrap(): the argument of emulator.run
MainLock ==
    /\ hostpc = "run"
    /\ debug_cmd_lock = "free"
    /\ debug_cmd_lock' = "main"
    /\ hostpc' = "locked"
    /\ UNCHANGED <<emuVars, now, display_times, presented, debug_cmd, dbgpc,
                   command, lines_read>>

\* main.rs:90, emulator.run(..) with the guard held, dropped at the end of
\* the statement.  Emulator::run (emulator.rs:52-77) does not touch debug_cmd
MainRun(arm) ==
    /\ hostpc = "locked"
    /\ arm
    /\ hostpc' = "frame_ready"
    /\ debug_cmd_lock' = "free"
    /\ UNCHANGED <<now, presented, debug_cmd, dbgpc, command, lines_read>>

\* the wall clock, seen while the emulator waits for the frame period to end
DebugClockAdvance ==
    /\ state = "WaitNextFrame"
    /\ now + ONE_FRAME_IN_NS <= MaxDebugFrames * ONE_FRAME_IN_NS
    /\ now' = now + ONE_FRAME_IN_NS
    /\ UNCHANGED <<emuVars, hostpc, display_times, presented, dbgVars>>

\* what no step of the debugger or of the host loop changes
debugFrame == <<gpu, gpuHist, drawHist, run_request, tileVars, irqVars>>

NextDebug ==
    \/ (DebuggerReadLine /\ UNCHANGED <<emuVars, hostVars, debugFrame>>)
    \/ (DebuggerLock /\ UNCHANGED <<emuVars, hostVars, debugFrame>>)
    \/ (DebuggerPush /\ UNCHANGED <<emuVars, hostVars, debugFrame>>)
    \/ (EmulatorDebuggerReadLine /\ UNCHANGED <<emuVars, hostVars, debugFrame>>)
    \/ (MainLock /\ UNCHANGED debugFrame)
    \/ (MainRun(RunGetTime) /\ UNCHANGED debugFrame)
    \/ (MainRun(RunRunMachine) /\ UNCHANGED debugFrame)
    \/ (MainRun(RunWaitNextFrame) /\ UNCHANGED debugFrame)
    \/ (MainRun(RunDisplayFrame) /\ UNCHANGED debugFrame)
    \/ (HostFrameReady /\ UNCHANGED <<dbgVars, debugFrame>>)
    \/ (DebugClockAdvance /\ UNCHANGED debugFrame)

SpecDebug == InitDebug /\ [][NextDebug]_vars

\* C16: the debugger command queue is accessed under mutual exclusion: a push
\* by the debugger thread and the emulator's access to the queue during a
\* tick never overlap, each happening only while its thread holds the mutex.
C16_QueueMutualExclusion ==
    /\ ~(dbgpc = "push" /\ hostpc = "locked")
    /\ dbgpc = "push" => debug_cmd_lock = "debugger"
    /\ hostpc = "locked" => debug_cmd_lock = "main"

\* the debugger thread is about to push a second command while the host
\* loop, between two ticks of a frame being run, waits for the mutex
C16_Witness ==
    /\ dbgpc = "push"
    /\ debug_cmd_lock = "debugger"
    /\ hostpc = "run"
    /\ state = "RunMachine"
    /\ cycles_elapsed_in_frame > 0
    /\ Len(debug_cmd) = 1

\* C17: every run, halt or step line entered while --debug is on is appended
\* to the queue exactly once and removed from it by the emulator at the start
\* of a later tick, so that the queue is empty after every tick (and its
\* length stays bounded); other lines append nothing.
C17_QueueDrainedByTick ==
    [][ (hostpc = "locked" /\ hostpc' = "frame_ready") => debug_cmd' = <<>> ]_vars

(***************************************************************************)
(* SpecTile: get_tile_data called for every tile id and row offset, on the *)
(* VRAM of the unit tests, under both addressing methods                   *)
(***************************************************************************)
TileIds == 0 .. 255
TileRowOffsets == {0, 2, 4, 6, 8, 10, 12, 14}

InitTile ==
    /\ PacerInit
    /\ GpuHistInit
    /\ DrawHistInit
    /\ AuxInit
    /\ \E d \in BOOLEAN :
          gpu = [WriteAll(Gpu_new, TestWrites, Len(TestWrites))
                    EXCEPT !.background_tile_data_area = d]

\* get_tile_data(id * 16, off), as draw_line calls it (gpu.rs:277-281); the
\* call changes nothing in the GPU, so one call per behaviour shows them all
GetTileData ==
    /\ tile_read = <<>>
    /\ \E id \in TileIds, off \in TileRowOffsets :
          LET tile_mem_addr == U16(id * TILE_SIZE_IN_BYTES)
          IN  tile_read' = [ id      |-> id,
                             offset  |-> off,
                             offsets |-> get_tile_data_offsets(gpu, tile_mem_addr, off),
                             data    |-> get_tile_data(gpu, tile_mem_addr, off) ]
    /\ UNCHANGED <<emuVars, hostVars, gpu, gpuHist, drawHist, run_request,
                   irqVars, dbgVars>>

SpecTile == InitTile /\ [][GetTileData]_vars

\* C12: for every tile id 0..255 and row offset in {0,2,..,14},
\* get_tile_data reads d0 from VRAM offset id*16 + offset when
\* background_tile_data_area is true and from 0x1000 + s*16 + offset when it
\* is false, s the id as a signed 8-bit number (ids 0..127 in 0x1000..0x17FF,
\* ids 128..255 in 0x0800..0x0FFF), and d1 from the next byte.
C12_TileDataAddress ==
    tile_read # <<>> =>
        LET id == tile_read.id
            a0 == (IF gpu.background_tile_data_area
                   THEN id * 16
                   ELSE 4096 + Signed8(id) * 16) + tile_read.offset
        IN  /\ tile_read.offsets = <<a0 + 1, a0>>
            /\ tile_read.data = <<ArrayGet(gpu.vram, a0 + 1), ArrayGet(gpu.vram, a0)>>
            /\ (~gpu.background_tile_data_area /\ id <= 127) => a0 \in 4096 .. 6143
            /\ (~gpu.background_tile_data_area /\ id >= 128) => a0 \in 2048 .. 4095

\* the case of test_tile_data_area: under $8800 addressing tile 0x81 is read
\* from 0x0810 and 0x0811, which hold 0x80
C12_Witness ==
    /\ tile_read # <<>>
    /\ ~gpu.background_tile_data_area
    /\ tile_read.id = 129
    /\ tile_read.offsets = <<2065, 2064>>
    /\ tile_read.data = <<128, 128>>

(***************************************************************************)
(* SpecIrq: add calls on a GpuInterruptRequest value                       *)
(***************************************************************************)
\* at most this many add calls are made
MaxAdds == 3

InitIrq ==
    /\ PacerInit
    /\ gpu = Gpu_new
    /\ GpuHistInit
    /\ DrawHistInit
    /\ run_request = "None"
    /\ tile_read = <<>>
    /\ DbgInit
    /\ \E a \in GpuInterruptRequest : irq = a /\ irq_log = <<a>>

\* irq.add(other)
Add ==
    /\ Len(irq_log) <= MaxAdds
    /\ \E other \in GpuInterruptRequest :
          /\ irq' = GpuInterruptRequest_add(irq, other)
          /\ irq_log' = Append(irq_log, other)
    /\ UNCHANGED <<emuVars, hostVars, gpu, gpuHist, drawHist, run_request,
                   tileVars, dbgVars>>

SpecIrq == InitIrq /\ [][Add]_vars

\* the interrupts a request stands for
Requests(r) ==
    CASE r = "None"    -> {}
      [] r = "VBlank"  -> {"VBlank"}
      [] r = "LCDStat" -> {"LCDStat"}
      [] r = "Both"    -> {"VBlank", "LCDStat"}

\* C13: add is commutative: the value left in a after a.add(b) is the value
\* left in b after b.add(a).
C13_AddCommutative ==
    Len(irq_log) = 2 =>
        LET a == irq_log[1]
            b == irq_log[2]
        IN  irq = GpuInterruptRequest_add(b, a)

\* C14: add computes the join: the value left in a after a.add(b) contains
\* VBlank iff a or b does and LCDStat iff a or b does.
C14_AddIsJoin ==
    [][ irq_log' # irq_log =>
        LET b == irq_log'[Len(irq_log')]
        IN  Requests(irq') = Requests(irq) \cup Requests(b) ]_vars

(***************************************************************************)
(* Claims about the mode machine under batched advances, checked under     *)
(* SpecGpu                                                                 *)
(***************************************************************************)
\* C18: whenever a GPU advance changes current_line, the new value is
\* (old + 1) mod 154: 0..142 increment at the end of HorizontalBlank, 143 is
\* followed by 144 on entry to VerticalBlank, the line increments up to 153
\* during VerticalBlank, and 153 is followed by 0.
C18_LineIncrements ==
    [][ gpu'.current_line # gpu.current_line =>
        gpu'.current_line = (gpu.current_line + 1) % 154 ]_vars

\* n successive calls run(1): the first n \div 2 of them, then the others
RECURSIVE RunUnits(_, _)
RunUnits(g, n) ==
    IF n = 0 THEN g
    ELSE IF n = 1 THEN Gpu_run(g, 1)
    ELSE LET h == RunUnits(g, n \div 2)
         IN  IF h.cycles >= 0 THEN RunUnits(h, n - (n \div 2)) ELSE h

\* the cycle budget of a mode
ModeBudget(m) ==
    CASE m = "HorizontalBlank" -> 204
      [] m = "VerticalBlank"   -> 4560
      [] m = "OAMScan"         -> 80
      [] m = "DrawPixel"       -> 172

\* C19: the GPU's progress does not depend on batching: from every reachable
\* state and for every c in 0..255, one advance by c leaves the same mode,
\* current_line and residual cycle counter as c advances by 1, and the
\* residual counter is below the budget of the mode the advance ends in.
C19_BatchingIndependent ==
    \A c \in 0 .. 255 :
        LET batched == Gpu_run(gpu, c)
            single  == RunUnits(gpu, c)
        IN  /\ batched.mode = single.mode
            /\ batched.current_line = single.current_line
            /\ batched.cycles = single.cycles
            /\ batched.cycles < ModeBudget(batched.mode)

\* C20: the advance that leaves the HorizontalBlank of the last visible line
\* and enters VerticalBlank requests the VBlank interrupt, and no other
\* advance requests it.
C20_VBlankRequestedOnEntry ==
    [][ (run_request' \in {"VBlank", "Both"}) <=>
        (gpu.mode = "HorizontalBlank" /\ gpu'.mode = "VerticalBlank") ]_vars

(***************************************************************************)
(* Claims about rendering through Gpu::run                                 *)
(***************************************************************************)
\* C21: draw_line is invoked once per visible scanline, at the DrawPixel ->
\* HorizontalBlank transition, and renders frame-buffer row y = current_line
\* (so that a complete frame renders each of the rows 0..143 once): the call
\* makes row current_line the background pixels of that row and changes no
\* other byte of the frame buffer.
C21_RunRendersCurrentLine ==
    [][ ( /\ gpu.mode = "DrawPixel" /\ gpu'.mode = "HorizontalBlank"
          /\ gpu.background_display_enabled ) =>
        LET y    == gpu.current_line
            base == y * 160
            row  == base .. (base + 159)
            fy   == (y + gpu.viewport_y_offset) % 256
        IN  /\ draws' = draws + 1
            /\ \A i \in (DOMAIN gpu.frame_buffer) \cup (DOMAIN gpu'.frame_buffer) \cup row :
                  ArrayGet(gpu'.frame_buffer, i) =
                     IF i \in row
                     THEN BackgroundPixel(gpu, fy, (i - base + gpu.viewport_x_offset) % 256)
                     ELSE ArrayGet(gpu.frame_buffer, i)
      ]_vars

(***************************************************************************)
(* SpecSwitch: SpecDraw with the background switched on and off between    *)
(* the draw_line calls                                                     *)
(***************************************************************************)
\* gpu.background_display_enabled = e
SetBackgroundEnabled ==
    /\ draws < MaxDraws
    /\ ~gpu.panicked
    /\ \E e \in BOOLEAN : gpu' = [gpu EXCEPT !.background_display_enabled = e]
    /\ UNCHANGED <<emuVars, hostVars, gpuHist, drawHist, auxVars>>

NextSwitch == SetLine \/ SetScrollY \/ SetBackgroundEnabled \/ DrawLine

SpecSwitch == InitDraw /\ [][NextSwitch]_vars

\* C22: when background_display_enabled is false, draw_line leaves every byte
\* of frame_buffer unchanged, for every value of current_line, SCX, SCY and
\* VRAM contents.
C22_DisabledBackgroundUnchanged ==
    [][ (draws' = draws + 1 /\ ~gpu.background_display_enabled) =>
        /\ ~gpu'.panicked
        /\ \A i \in (DOMAIN gpu.frame_buffer) \cup (DOMAIN gpu'.frame_buffer) :
              ArrayGet(gpu'.frame_buffer, i) = ArrayGet(gpu.frame_buffer, i)
      ]_vars

\* row 8 was rendered, the background switched off, and draw_line called
\* again with current_line = 144: row 143 was not rendered
C22_Witness ==
    /\ draws = 2
    /\ ~gpu.background_display_enabled
    /\ gpu.current_line = 144
    /\ gpu.background_palette = Palette_new
    /\ ArrayGet(gpu.frame_buffer, 8 * 160 + 1) = WHITE
    /\ 8 * 160 \in DOMAIN gpu.frame_buffer
    /\ 143 * 160 \notin DOMAIN gpu.frame_buffer

(***************************************************************************)
(* SpecFrame: Gpu::run through whole frames on a GPU whose registers and   *)
(* VRAM are set up and whose background is switched on at some point       *)
(***************************************************************************)
\* the specification stops once this many rows have been rendered
MaxFrameRows == 1

\* cycle counts of the run calls: the smallest step and the largest u8
FrameCycleCounts == {1, 255}

\* data area, tile map, SCX and SCY: the set-up of test_draw_frame, and the
\* other data area and tile map with offsets that wrap
FrameConfigs == { <<TRUE, X9800, 0, 0>>, <<FALSE, X9C00, 1, 250>> }

InitFrame ==
    /\ PacerInit
    /\ GpuHistInit
    /\ DrawHistInit
    /\ AuxInit
    /\ \E f \in FrameConfigs :
          gpu = [WriteAll(Gpu_new, TestWrites, Len(TestWrites))
                    EXCEPT !.background_tile_data_area = f[1],
                           !.background_tile_map_area = f[2],
                           !.viewport_x_offset = f[3],
                           !.viewport_y_offset = f[4]]

\* gpu.run(c)
FrameRun ==
    /\ ~gpu.panicked
    /\ Cardinality(DOMAIN gpu.frame_buffer) < MaxFrameRows * SCREEN_WIDTH
    /\ \E c \in FrameCycleCounts :
          /\ gpu' = Gpu_run(gpu, c)
          /\ run_request' = Gpu_run_request(gpu, c)
    /\ UNCHANGED <<emuVars, hostVars, gpuHist, drawHist, restVars>>

\* gpu.background_display_enabled = true, once
EnableBackground ==
    /\ ~gpu.panicked
    /\ ~gpu.background_display_enabled
    /\ gpu' = [gpu EXCEPT !.background_display_enabled = TRUE]
    /\ UNCHANGED <<emuVars, hostVars, gpuHist, drawHist, auxVars>>

NextFrame == FrameRun \/ EnableBackground

SpecFrame == InitFrame /\ [][NextFrame]_vars

\* C23: in every state reached through run() calls, draw_line is invoked
\* only with current_line >= 1 (current_line - 1 does not underflow), every
\* frame_buffer index it writes is below 160*144, every VRAM index it reads
\* is below 0x2000, and the u16 cycle counter does not overflow.
C23_RunIsSafe ==
    [][ /\ gpu.cycles + 255 < 65536
        /\ ~gpu'.panicked
        /\ (gpu.mode = "DrawPixel" /\ gpu'.mode = "HorizontalBlank") =>
              /\ gpu.current_line >= 1
              /\ gpu.background_display_enabled =>
                    \A x \in 0 .. 159 :
                       /\ (gpu.current_line - 1) * 160 + x < 160 * 144
                       /\ \A a \in draw_pixel_reads(gpu, gpu.current_line - 1, x) :
                              a < 8192
      ]_vars

\* the last line of a frame has been rendered without a panic, with offsets
\* that wrap and the tile map that ends at the end of VRAM
C23_Witness ==
    /\ gpu.background_display_enabled
    /\ ~gpu.panicked
    /\ gpu.mode = "HorizontalBlank"
    /\ gpu.current_line = 143
    /\ gpu.background_tile_map_area = X9C00
    /\ gpu.viewport_y_offset = 250
    /\ 142 * 160 + 159 \in DOMAIN gpu.frame_buffer

(***************************************************************************)
(* SpecPacerFair: SpecPacer with a host loop that keeps calling            *)
(* emulator.run and frame_ready, and a wall clock that keeps advancing     *)
(* while it can                                                            *)
(***************************************************************************)
HostStep ==
    \/ (TickGetTime /\ UNCHANGED <<gpu, gpuHist, drawHist, auxVars>>)
    \/ (TickRunMachine /\ UNCHANGED <<gpu, gpuHist, drawHist, auxVars>>)
    \/ (TickWaitNextFrame /\ UNCHANGED <<gpu, gpuHist, drawHist, auxVars>>)
    \/ (TickDisplayFrame /\ UNCHANGED <<gpu, gpuHist, drawHist, auxVars>>)
    \/ (HostFrameReady /\ UNCHANGED <<gpu, gpuHist, drawHist, auxVars>>)

ClockStep == ClockAdvance /\ UNCHANGED <<gpu, gpuHist, drawHist, auxVars>>

SpecPacerFair ==
    InitPacer /\ [][NextPacer]_vars /\ WF_vars(HostStep) /\ WF_vars(ClockStep)

\* the clock of the model can still pass the end of the frame period that
\* began at emulator_frame_tick, whatever steps it takes
ClockPassesFrame == emulator_frame_tick + 2 * ONE_FRAME_IN_NS - 2 <= MaxNow

====
